---- MODULE Spec2Model ----
(***************************************************************************)
(* Model of the task-creation form of Frontend/src/App.tsx: the deadline   *)
(* field, its date and time fragments, the calendar and time-picker        *)
(* popups, the two synchronisation effects and the submission handler.     *)
(*                                                                         *)
(* Strings are sequences of one-character strings, so that formatting      *)
(* (padStart, toISOString, toTimeString, template literals) and parsing    *)
(* (the Date constructor, split) are computed and not assumed.  A Date is  *)
(* its time value in minutes since 1970-01-01T00:00Z (nothing in the       *)
(* component reads seconds); the host timezone is a fixed offset tz, in    *)
(* minutes east of UTC (no daylight-saving transitions).                   *)
(*                                                                         *)
(* A handler is a function from the state of the render it closes over to  *)
(* the state its setState calls produce.  An event is delivered to the     *)
(* settled component, that is once the effects scheduled by the previous   *)
(* event, and the transitions they start, have been committed.             *)
(***************************************************************************)
EXTENDS Integers, Sequences, FiniteSets, TLC

VARIABLES
    form,            \* useState<TaskCreate>: [title, description, status, deadline]
    deadlineDate,    \* useState(''): the date fragment
    deadlineTime,    \* useState(''): the time fragment
    showModal,       \* useState(false)
    createdTask,     \* useState<TaskResponse | null>(null)
    showCalendar,    \* useState(false)
    showTimePicker,  \* useState(false)
    calendarDate,    \* useState(new Date()): a time value
    selectedHour,    \* useState(12)
    selectedMinute,  \* useState(0)
    depDeadline,     \* form.deadline as the deadline effect last saw it
    depTime,         \* deadlineTime as the time effect last saw it
    depPopups,       \* <<showCalendar, showTimePicker>> as the listener effect last saw them
    listeners,       \* number of mousedown listeners attached to the document
    phase,           \* where the component is in its life: see MountEffects
    pressed,         \* the toggle button under the pointer between mousedown and click
    inflight,        \* POST requests awaiting their response
    requests,        \* number of POST requests issued so far
    alerts,          \* number of alert() notifications shown
    tz,              \* host timezone offset, minutes east of UTC
    now,             \* the host clock, a time value
    last             \* the handler the last event was delivered to

vars == <<form, deadlineDate, deadlineTime, showModal, createdTask,
          showCalendar, showTimePicker, calendarDate, selectedHour,
          selectedMinute, depDeadline, depTime, depPopups, listeners,
          phase, pressed, inflight, requests, alerts, tz, now, last>>

----------------------------------------------------------------------------
(* Strings *)

EmptyStr == << >>

DigitChars == <<"0", "1", "2", "3", "4", "5", "6", "7", "8", "9">>

DigitChar(n) == DigitChars[n + 1]

IsDigit(c) == \E i \in 1..10 : DigitChars[i] = c

DigitVal(c) == (CHOOSE i \in 1..10 : DigitChars[i] = c) - 1

\* Number.prototype.toString() of a non-negative integer: its decimal digits
NumToString(n) ==
    LET len == CHOOSE k \in 1..10 : n < 10 ^ k /\ (k = 1 \/ n >= 10 ^ (k - 1))
    IN [i \in 1..len |-> DigitChar((n \div (10 ^ (len - i))) % 10)]

\* a faulty padStart, which pads nothing
PadStartNone(s, len, ch) == s

\* String.prototype.padStart(len, ch) with a one-character filler
PadStart(s, len, ch) ==
    IF Len(s) >= len THEN s ELSE [i \in 1..(len - Len(s)) |-> ch] \o s

\* String.prototype.slice(0, n)
SliceTo(s, n) == SubSeq(s, 1, IF n < Len(s) THEN n ELSE Len(s))

\* the positions of sep in s
SepPositions(s, sep) == {i \in 1..Len(s) : s[i] = sep}

\* s.split(sep): the pieces of s between the occurrences of sep
Split(s, sep) ==
    LET at == SepPositions(s, sep)
        \* the position of the k-th separator; 0 and Len(s) + 1 bound the string
        pos(k) == IF k = 0 THEN 0
                  ELSE IF k > Cardinality(at) THEN Len(s) + 1
                  ELSE CHOOSE i \in at : Cardinality({j \in at : j < i}) = k - 1
    IN [k \in 1..(Cardinality(at) + 1) |-> SubSeq(s, pos(k - 1) + 1, pos(k) - 1)]

\* s.split(sep)[0]
SplitFirst(s, sep) == Split(s, sep)[1]

AllDigits(s) == \A i \in 1..Len(s) : IsDigit(s[i])

\* the value of a string of decimal digits
RECURSIVE DigitsVal(_)
DigitsVal(s) ==
    IF s = EmptyStr THEN 0
    ELSE 10 * DigitsVal(SubSeq(s, 1, Len(s) - 1)) + DigitVal(s[Len(s)])

\* Number(s) for the strings the component converts: a record [nan, val].
\* Number('') is 0; a string of decimal digits is its value; anything else
\* met here (letters) is NaN.
ToNumber(s) ==
    IF AllDigits(s) THEN [nan |-> FALSE, val |-> DigitsVal(s)]
    ELSE [nan |-> TRUE, val |-> 0]

----------------------------------------------------------------------------
(* Dates: the arithmetic of the built-in Date object *)

MinutesPerDay == 24 * 60

IsLeapYear(y) == (y % 4 = 0 /\ y % 100 # 0) \/ y % 400 = 0

\* number of days of month m (1..12) of year y
DaysInMonthOf(y, m) ==
    IF m = 2 THEN (IF IsLeapYear(y) THEN 29 ELSE 28)
    ELSE IF m \in {4, 6, 9, 11} THEN 30 ELSE 31

\* day number (days since 1970-01-01) of the civil date y-m-d, m in 1..12
DaysFromCivil(y, m, d) ==
    LET yy  == IF m <= 2 THEN y - 1 ELSE y
        era == yy \div 400
        yoe == yy - era * 400
        mp  == (m + 9) % 12
        doy == (153 * mp + 2) \div 5 + d - 1
        doe == yoe * 365 + yoe \div 4 - yoe \div 100 + doy
    IN era * 146097 + doe - 719468

\* the civil date of day number z
CivilFromDays(z) ==
    LET zz  == z + 719468
        era == zz \div 146097
        doe == zz - era * 146097
        yoe == (doe - doe \div 1460 + doe \div 36524 - doe \div 146096) \div 365
        doy == doe - (365 * yoe + yoe \div 4 - yoe \div 100)
        mp  == (5 * doy + 2) \div 153
        d   == doy - (153 * mp + 2) \div 5 + 1
        m   == IF mp < 10 THEN mp + 3 ELSE mp - 9
        y   == yoe + era * 400
    IN [year |-> IF m <= 2 THEN y + 1 ELSE y, month |-> m, day |-> d]

\* MakeDay/MakeTime: month0 is 0-based and may lie outside 0..11, day may
\* lie outside the month; both are carried over as the Date constructor does
MakeTimeValue(year, month0, day, hour, minute) ==
    LET y == year + month0 \div 12
        m == month0 % 12
    IN (DaysFromCivil(y, m + 1, 1) + day - 1) * MinutesPerDay + hour * 60 + minute

\* the fields of a time value read at offset off (0 for the UTC getters)
FieldsAt(t, off) ==
    LET loc == t + off
        c   == CivilFromDays(loc \div MinutesPerDay)
        mod == loc % MinutesPerDay
    IN [year |-> c.year, month0 |-> c.month - 1, day |-> c.day,
        hour |-> mod \div 60, minute |-> mod % 60,
        weekday |-> ((loc \div MinutesPerDay) + 4) % 7]

\* new Date(year, month, day): local midnight of that day
NewDateLocal(year, month0, day, off) ==
    MakeTimeValue(year, month0, day, 0, 0) - off

GetFullYear(t, off) == FieldsAt(t, off).year
GetMonth(t, off)    == FieldsAt(t, off).month0
GetDate(t, off)     == FieldsAt(t, off).day
GetHours(t, off)    == FieldsAt(t, off).hour
GetMinutes(t, off)  == FieldsAt(t, off).minute
GetDay(t, off)      == FieldsAt(t, off).weekday

----------------------------------------------------------------------------
(* Dates: formatting and parsing *)

Pad2(n) == PadStart(NumToString(n), 2, "0")
Pad4(n) == PadStart(NumToString(n), 4, "0")

\* Date.prototype.toISOString(): YYYY-MM-DDTHH:mm:ss.sssZ, read in UTC
ToISOString(t) ==
    LET f == FieldsAt(t, 0)
    IN Pad4(f.year) \o <<"-">> \o Pad2(f.month0 + 1) \o <<"-">> \o Pad2(f.day)
       \o <<"T">> \o Pad2(f.hour) \o <<":">> \o Pad2(f.minute)
       \o <<":", "0", "0", ".", "0", "0", "0", "Z">>

\* Date.prototype.toTimeString(): HH:mm:ss followed by the zone, read in
\* local time; the component keeps the first five characters only
ToTimeString(t, off) ==
    LET f == FieldsAt(t, off)
    IN Pad2(f.hour) \o <<":">> \o Pad2(f.minute) \o <<":", "0", "0", " ", "G", "M", "T">>

\* date.toISOString().split('T')[0]
IsoDatePart(t) == SplitFirst(ToISOString(t), "T")

\* date.toTimeString().slice(0, 5)
LocalTimePart(t, off) == SliceTo(ToTimeString(t, off), 5)

\* YYYY-MM-DD at positions 1..10 of s
DateSyntax(s) ==
    /\ Len(s) >= 10
    /\ AllDigits(SubSeq(s, 1, 4)) /\ s[5] = "-"
    /\ AllDigits(SubSeq(s, 6, 7)) /\ s[8] = "-"
    /\ AllDigits(SubSeq(s, 9, 10))

\* HH:mm at positions p..p+4 of s
TimeSyntax(s, p) ==
    /\ Len(s) >= p + 4
    /\ AllDigits(SubSeq(s, p, p + 1)) /\ s[p + 2] = ":"
    /\ AllDigits(SubSeq(s, p + 3, p + 4))

\* new Date(s) for the ISO forms the component builds: a record [valid, t].
\* YYYY-MM-DD is read as UTC; YYYY-MM-DDTHH:mm and YYYY-MM-DDTHH:mm:ss, which
\* carry no offset, are read as local time.  Any other string is an
\* Invalid Date.
ParseDate(s, off) ==
    LET invalid == [valid |-> FALSE, t |-> 0]
    IN IF ~DateSyntax(s) THEN invalid
       ELSE
         LET y  == DigitsVal(SubSeq(s, 1, 4))
             m  == DigitsVal(SubSeq(s, 6, 7))
             d  == DigitsVal(SubSeq(s, 9, 10))
             okDate == m \in 1..12 /\ d >= 1 /\ d <= DaysInMonthOf(y, m)
             withTime == /\ Len(s) \in {16, 19}
                         /\ s[11] = "T"
                         /\ TimeSyntax(s, 12)
                         /\ Len(s) = 19 =>
                               (s[17] = ":" /\ AllDigits(SubSeq(s, 18, 19))
                                  /\ DigitsVal(SubSeq(s, 18, 19)) <= 59)
             hh == DigitsVal(SubSeq(s, 12, 13))
             mi == DigitsVal(SubSeq(s, 15, 16))
         IN IF ~okDate THEN invalid
            ELSE IF Len(s) = 10
              THEN [valid |-> TRUE, t |-> MakeTimeValue(y, m - 1, d, 0, 0)]
            ELSE IF withTime /\ hh <= 23 /\ mi <= 59
              THEN [valid |-> TRUE, t |-> MakeTimeValue(y, m - 1, d, hh, mi) - off]
            ELSE invalid

----------------------------------------------------------------------------
(* The date and time controls *)

\* a valid date string of HTML: a year of four or more digits, not 0, then
\* -MM-DD naming a day of that month
IsValidDateString(s) ==
    LET yl == Len(s) - 6
    IN /\ Len(s) >= 10
       /\ AllDigits(SubSeq(s, 1, yl)) /\ DigitsVal(SubSeq(s, 1, yl)) > 0
       /\ s[yl + 1] = "-" /\ AllDigits(SubSeq(s, yl + 2, yl + 3))
       /\ s[yl + 4] = "-" /\ AllDigits(SubSeq(s, yl + 5, yl + 6))
       /\ DigitsVal(SubSeq(s, yl + 2, yl + 3)) \in 1..12
       /\ DigitsVal(SubSeq(s, yl + 5, yl + 6)) >= 1
       /\ DigitsVal(SubSeq(s, yl + 5, yl + 6))
             <= DaysInMonthOf(DigitsVal(SubSeq(s, 1, yl)), DigitsVal(SubSeq(s, yl + 2, yl + 3)))

\* a valid time string of HTML, in the form the control produces without a
\* step attribute: HH:mm
IsValidTimeString(s) ==
    /\ Len(s) = 5
    /\ TimeSyntax(s, 1)
    /\ DigitsVal(SubSeq(s, 1, 2)) <= 23
    /\ DigitsVal(SubSeq(s, 4, 5)) <= 59

\* e.target.value of <input type="date"> / <input type="time">: the value
\* sanitization of the control empties what is not a valid date / time string
DateInputValue(raw) == IF IsValidDateString(raw) THEN raw ELSE EmptyStr
TimeInputValue(raw) == IF IsValidTimeString(raw) THEN raw ELSE EmptyStr

----------------------------------------------------------------------------
(* Bounds and inputs *)

MaxInflight   == 2      \* POST requests awaiting a response at one time
MaxSubmits    == 2      \* submit events in one behaviour
NavSpan       == 1      \* months the calendar may be moved away from BaseMonth
DaySpan       == 1      \* days the date fragment may lie away from BaseDay
MaxEffectRuns == 4      \* effect runs followed after one event

BaseMonth == 2024 * 12          \* January 2024, as year * 12 + month0
BaseDay   == DaysFromCivil(2024, 1, 1)

\* the value of an <input type="date"> / <input type="time">
DateValue(y, m, d) == Pad4(y) \o <<"-">> \o Pad2(m) \o <<"-">> \o Pad2(d)
TimeValue(h, m)    == Pad2(h) \o <<":">> \o Pad2(m)

TZOffsets     == {-60, 0, 60}
\* what is entered into the two controls: nothing, a partial entry, a value
TypedDates    == {EmptyStr, <<"2", "0", "2", "4", "-", "0", "1">>, DateValue(2024, 1, 1)}
TypedTimes    == {EmptyStr, <<"2", "3", ":">>, TimeValue(23, 30)}
DateInputs    == {DateInputValue(raw) : raw \in TypedDates}
\* an entry with a year of five digits, which the date control accepts
TypedLongDates == {<<"1">> \o DateValue(2024, 1, 1)}
LongDateInputs == {DateInputValue(raw) : raw \in TypedLongDates}
TimeInputs    == {TimeInputValue(raw) : raw \in TypedTimes}
HourOptions   == {9}                \* of the 24 hour buttons
MinuteOptions == {5}                \* of the 60 minute buttons
NowInstants   == {MakeTimeValue(2023, 11, 31, 23, 30)}
TitleInputs   == {"Draft brief"}
Targets       == {"calendar", "calendarButton", "timePicker", "timePickerButton", "page"}

----------------------------------------------------------------------------
(* The component's state as one record, and its initial value *)

Null == [null |-> TRUE]

InitialForm ==
    [title |-> "", description |-> "", status |-> "pending", deadline |-> EmptyStr]

Cur ==
    [form |-> form, deadlineDate |-> deadlineDate, deadlineTime |-> deadlineTime,
     showModal |-> showModal, createdTask |-> createdTask,
     showCalendar |-> showCalendar, showTimePicker |-> showTimePicker,
     calendarDate |-> calendarDate, selectedHour |-> selectedHour,
     selectedMinute |-> selectedMinute,
     depDeadline |-> depDeadline, depTime |-> depTime,
     depPopups |-> depPopups, listeners |-> listeners,
     inflight |-> inflight, requests |-> requests, alerts |-> alerts]

\* the next render: every variable takes its value from s
Apply(s) ==
    /\ form' = s.form
    /\ deadlineDate' = s.deadlineDate
    /\ deadlineTime' = s.deadlineTime
    /\ showModal' = s.showModal
    /\ createdTask' = s.createdTask
    /\ showCalendar' = s.showCalendar
    /\ showTimePicker' = s.showTimePicker
    /\ calendarDate' = s.calendarDate
    /\ selectedHour' = s.selectedHour
    /\ selectedMinute' = s.selectedMinute
    /\ depDeadline' = s.depDeadline
    /\ depTime' = s.depTime
    /\ depPopups' = s.depPopups
    /\ listeners' = s.listeners
    /\ inflight' = s.inflight
    /\ requests' = s.requests
    /\ alerts' = s.alerts

Init ==
    /\ tz \in TZOffsets
    /\ now \in NowInstants
    /\ form = InitialForm
    /\ deadlineDate = EmptyStr
    /\ deadlineTime = EmptyStr
    /\ showModal = FALSE
    /\ createdTask = Null
    /\ showCalendar = FALSE
    /\ showTimePicker = FALSE
    /\ calendarDate = now
    /\ selectedHour = 12
    /\ selectedMinute = 0
    /\ depDeadline = EmptyStr
    /\ depTime = EmptyStr
    /\ depPopups = <<FALSE, FALSE>>
    /\ listeners = 1
    /\ phase = "mounted"
    /\ inflight = << >>
    /\ requests = 0
    /\ alerts = 0
    /\ last = "mount"
    /\ pressed = "none"

----------------------------------------------------------------------------
(* Form handlers: each gives the state its setState calls produce *)

\* a faulty updateDeadline, without the midnight default of a date alone
updateDeadlineNoDefault(date, time) ==
    IF date # EmptyStr /\ time # EmptyStr
      THEN date \o <<"T">> \o time \o <<":", "0", "0">>
    ELSE EmptyStr

\* a faulty updateDeadline, whose midnight default does not test the date
updateDeadlineAlwaysMidnight(date, time) ==
    IF date # EmptyStr /\ time # EmptyStr
      THEN date \o <<"T">> \o time \o <<":", "0", "0">>
    ELSE date \o <<"T", "0", "0", ":", "0", "0", ":", "0", "0">>

\* updateDeadline(date, time): the new value of form.deadline
updateDeadline(date, time) ==
    IF date # EmptyStr /\ time # EmptyStr
      THEN date \o <<"T">> \o time \o <<":", "0", "0">>
    ELSE IF date # EmptyStr
      THEN date \o <<"T", "0", "0", ":", "0", "0", ":", "0", "0">>
    ELSE EmptyStr

\* handleChange: the title, description and status inputs
handleChange(s, name, value) ==
    [s EXCEPT !.form[name] = value]

\* a faulty handleDateChange, which stores the fragment only
handleDateChangeFragmentOnly(s, dateValue) ==
    [s EXCEPT !.deadlineDate = dateValue]

\* handleDateChange: the date input
handleDateChange(s, dateValue) ==
    [s EXCEPT !.deadlineDate = dateValue,
              !.form.deadline = updateDeadline(dateValue, s.deadlineTime)]

\* a faulty handleTimeChange, which recomputes from the time of the render
handleTimeChangeStale(s, timeValue) ==
    [s EXCEPT !.deadlineTime = timeValue,
              !.form.deadline = updateDeadline(s.deadlineDate, s.deadlineTime)]

\* handleTimeChange: the time input
handleTimeChange(s, timeValue) ==
    [s EXCEPT !.deadlineTime = timeValue,
              !.form.deadline = updateDeadline(s.deadlineDate, timeValue)]

\* the date handleDateSelect formats: new Date(year, month, day), then the
\* date part of its toISOString()
formattedSelectedDate(day, month0, year, off) ==
    IsoDatePart(NewDateLocal(year, month0, day, off))

\* handleDateSelect(day, month, year)
handleDateSelect(s, day, month0, year, off) ==
    LET formattedDate == formattedSelectedDate(day, month0, year, off)
        time == IF s.deadlineTime # EmptyStr THEN s.deadlineTime
                ELSE <<"0", "0", ":", "0", "0">>
    IN [s EXCEPT !.deadlineDate = formattedDate,
                 !.form.deadline = updateDeadline(formattedDate, time),
                 !.showCalendar = FALSE]

\* selectToday: the Today button of the calendar
selectToday(s, today, off) ==
    LET formattedDate == IsoDatePart(today)
        formattedTime == LocalTimePart(today, off)
    IN [s EXCEPT !.deadlineDate = formattedDate,
                 !.deadlineTime = formattedTime,
                 !.form.deadline = updateDeadline(formattedDate, formattedTime),
                 !.calendarDate = today,
                 !.showCalendar = FALSE]

\* the time handleTimeSelect formats
formattedSelectedTime(hour, minute) ==
    PadStart(NumToString(hour), 2, "0") \o <<":">> \o PadStart(NumToString(minute), 2, "0")

\* handleTimeSelect(hour, minute)
handleTimeSelect(s, hour, minute) ==
    LET formattedTime == formattedSelectedTime(hour, minute)
    IN [s EXCEPT !.deadlineTime = formattedTime,
                 !.form.deadline = updateDeadline(s.deadlineDate, formattedTime),
                 !.showTimePicker = FALSE]

\* a faulty selectCurrentTime, which reads the clock in UTC
selectCurrentTimeUTC(s, current, off) ==
    handleTimeSelect(s, GetHours(current, 0), GetMinutes(current, 0))

\* selectCurrentTime: the Now button of the time picker
selectCurrentTime(s, current, off) ==
    handleTimeSelect(s, GetHours(current, off), GetMinutes(current, off))

\* a faulty hour option, which commits the time as Confirm does
setSelectedHourCommits(s, i) == handleTimeSelect(s, i, s.selectedMinute)

\* onClick of an hour / a minute option
setSelectedHour(s, i) == [s EXCEPT !.selectedHour = i]
setSelectedMinute(s, i) == [s EXCEPT !.selectedMinute = i]

\* onClick of the calendar button / the time-picker button
\* a faulty calendar toggle, which always opens
toggleCalendarOpens(s) == [s EXCEPT !.showCalendar = TRUE]

toggleCalendar(s) == [s EXCEPT !.showCalendar = ~s.showCalendar]
toggleTimePicker(s) == [s EXCEPT !.showTimePicker = ~s.showTimePicker]

----------------------------------------------------------------------------
(* Calendar *)

\* a faulty getDaysInMonth, which asks for day 0 of the month itself
getDaysInMonthOfPrevious(date, off) ==
    GetDate(NewDateLocal(GetFullYear(date, off), GetMonth(date, off), 0, off), off)

\* getDaysInMonth(date): new Date(year, month + 1, 0).getDate()
getDaysInMonth(date, off) ==
    GetDate(NewDateLocal(GetFullYear(date, off), GetMonth(date, off) + 1, 0, off), off)

\* getFirstDayOfMonth(date): new Date(year, month, 1).getDay()
getFirstDayOfMonth(date, off) ==
    GetDay(NewDateLocal(GetFullYear(date, off), GetMonth(date, off), 1, off), off)

\* the days array of the render: firstDay nulls (0 here), then 1..daysInMonth
days(date, off) ==
    [i \in 1..getFirstDayOfMonth(date, off) |-> 0]
        \o [i \in 1..getDaysInMonth(date, off) |-> i]

\* date.setMonth(month0) on a copy of date, in local time
SetMonth(date, month0, off) ==
    LET f == FieldsAt(date, off)
    IN MakeTimeValue(f.year, month0, f.day, f.hour, f.minute) - off

\* a faulty navigateMonth, which also selects the first day of the month
navigateMonthSelects(s, direction, off) ==
    LET newDate == SetMonth(s.calendarDate,
                            GetMonth(s.calendarDate, off)
                               + (IF direction = "prev" THEN -1 ELSE 1), off)
        first == formattedSelectedDate(1, GetMonth(newDate, off),
                                       GetFullYear(newDate, off), off)
    IN [s EXCEPT !.calendarDate = newDate,
                 !.deadlineDate = first,
                 !.form.deadline = updateDeadline(first, s.deadlineTime)]

\* a faulty navigateMonth, which also dismisses the calendar
navigateMonthCloses(s, direction, off) ==
    [s EXCEPT !.calendarDate =
                  SetMonth(@, GetMonth(@, off) + (IF direction = "prev" THEN -1 ELSE 1), off),
              !.showCalendar = FALSE]

\* navigateMonth(direction)
navigateMonth(s, direction, off) ==
    LET prev == s.calendarDate
        newDate == IF direction = "prev"
                   THEN SetMonth(prev, GetMonth(prev, off) - 1, off)
                   ELSE SetMonth(prev, GetMonth(prev, off) + 1, off)
    IN [s EXCEPT !.calendarDate = newDate]

MonthIndex(date, off) == GetFullYear(date, off) * 12 + GetMonth(date, off)

\* the day numbers the model clicks: the first and the last of the grid
ClickedDays(date, off) == {1, getDaysInMonth(date, off)}

\* onClick of the cell showing day: handleDateSelect(day, month, year) with
\* the visible month and year
clickDay(s, day, off) ==
    handleDateSelect(s, day, GetMonth(s.calendarDate, off),
                     GetFullYear(s.calendarDate, off), off)

\* the marks of a day cell of the grid (day is 0 for a null cell): isToday
\* compares the cell with new Date(), isSelected with new Date(deadlineDate)
isToday(s, day, today, off) ==
    /\ day = GetDate(today, off)
    /\ GetMonth(s.calendarDate, off) = GetMonth(today, off)
    /\ GetFullYear(s.calendarDate, off) = GetFullYear(today, off)

isSelected(s, day, off) ==
    LET date == ParseDate(s.deadlineDate, off)
    IN /\ day # 0
       /\ s.deadlineDate # EmptyStr
       /\ date.valid
       /\ GetDate(date.t, off) = day
       /\ GetMonth(date.t, off) = GetMonth(s.calendarDate, off)
       /\ GetFullYear(date.t, off) = GetFullYear(s.calendarDate, off)

----------------------------------------------------------------------------
(* Click-outside listener *)

\* a faulty handleClickOutside, which does not look at the button refs
handleClickOutsideNoButtons(s, target) ==
    [s EXCEPT !.showCalendar = IF s.showCalendar /\ target # "calendar" THEN FALSE ELSE @,
              !.showTimePicker = IF s.showTimePicker /\ target # "timePicker" THEN FALSE ELSE @]

\* a faulty handleClickOutside, which takes either button for the inside of
\* both popups
handleClickOutsideAnyButton(s, target) ==
    LET onButton == target \in {"calendarButton", "timePickerButton"}
    IN [s EXCEPT !.showCalendar =
                     IF s.showCalendar /\ target # "calendar" /\ ~onButton THEN FALSE ELSE @,
                 !.showTimePicker =
                     IF s.showTimePicker /\ target # "timePicker" /\ ~onButton THEN FALSE ELSE @]

\* handleClickOutside(event).  A popup's ref is set exactly while the popup
\* is rendered; the button refs are always set.
handleClickOutside(s, target) ==
    LET closeCalendar == /\ s.showCalendar
                         /\ target # "calendar" /\ target # "calendarButton"
        closeTimePicker == /\ s.showTimePicker
                           /\ target # "timePicker" /\ target # "timePickerButton"
    IN [s EXCEPT !.showCalendar = IF closeCalendar THEN FALSE ELSE @,
                 !.showTimePicker = IF closeTimePicker THEN FALSE ELSE @]

----------------------------------------------------------------------------
(* Effects *)

\* every effect the last render scheduled has run
SettledIn(s) ==
    /\ s.depPopups = <<s.showCalendar, s.showTimePicker>>
    /\ s.depDeadline = s.form.deadline
    /\ s.depTime = s.deadlineTime

\* a faulty cleanup, which removes nothing
clickOutsideCleanupMissing(s) == s

\* the function the listener effect returns: removeEventListener
clickOutsideCleanup(s) == [s EXCEPT !.listeners = @ - 1]

\* the body of the listener effect: addEventListener of a new closure
clickOutsideSetup(s) ==
    [s EXCEPT !.listeners = @ + 1,
              !.depPopups = <<s.showCalendar, s.showTimePicker>>]

\* useEffect(..., [showCalendar, showTimePicker]): the cleanup of the previous
\* run removes the listener, the effect adds it again
clickOutsideEffect(s) == clickOutsideSetup(clickOutsideCleanup(s))

\* some handleClickOutside is attached to the document
listening == listeners > 0

Settled == SettledIn(Cur)

\* a faulty deadline effect, which writes the deadline back from the
\* fragments it has just computed
deadlineSyncEffectWritesBack(s, off) ==
    LET date == ParseDate(s.form.deadline, off)
    IN IF s.form.deadline # EmptyStr /\ date.valid
       THEN [s EXCEPT !.calendarDate = date.t,
                      !.deadlineDate = IsoDatePart(date.t),
                      !.deadlineTime = LocalTimePart(date.t, off),
                      !.form.deadline =
                          updateDeadline(IsoDatePart(date.t), LocalTimePart(date.t, off)),
                      !.depDeadline = s.form.deadline]
       ELSE [s EXCEPT !.depDeadline = s.form.deadline]

\* a faulty deadline effect, without the isNaN test
deadlineSyncEffectUnchecked(s, off) ==
    LET date == ParseDate(s.form.deadline, off)
    IN [s EXCEPT !.calendarDate = date.t,
                 !.deadlineDate = IsoDatePart(date.t),
                 !.deadlineTime = LocalTimePart(date.t, off),
                 !.selectedHour = GetHours(date.t, off),
                 !.selectedMinute = GetMinutes(date.t, off),
                 !.depDeadline = s.form.deadline]

\* a faulty deadline effect, which leaves the calendar where it is
deadlineSyncEffectKeepsCalendar(s, off) ==
    LET date == ParseDate(s.form.deadline, off)
    IN IF s.form.deadline # EmptyStr /\ date.valid
       THEN [s EXCEPT !.deadlineDate = IsoDatePart(date.t),
                      !.deadlineTime = LocalTimePart(date.t, off),
                      !.selectedHour = GetHours(date.t, off),
                      !.selectedMinute = GetMinutes(date.t, off),
                      !.depDeadline = s.form.deadline]
       ELSE [s EXCEPT !.depDeadline = s.form.deadline]

\* useEffect(..., [form.deadline]): the sync of the fragments, the calendar
\* view and the staged time with a deadline that parses
deadlineSyncEffect(s, off) ==
    LET date == ParseDate(s.form.deadline, off)
    IN IF s.form.deadline # EmptyStr /\ date.valid
       THEN [s EXCEPT !.calendarDate = date.t,
                      !.deadlineDate = IsoDatePart(date.t),
                      !.deadlineTime = LocalTimePart(date.t, off),
                      !.selectedHour = GetHours(date.t, off),
                      !.selectedMinute = GetMinutes(date.t, off),
                      !.depDeadline = s.form.deadline]
       ELSE [s EXCEPT !.depDeadline = s.form.deadline]

\* useEffect(..., [deadlineTime]): the sync of the staged time with the
\* time fragment
timeSyncEffect(s) ==
    LET parts   == Split(s.deadlineTime, ":")
        hours   == ToNumber(parts[1])
        minutes == IF Len(parts) >= 2 THEN ToNumber(parts[2])
                   ELSE [nan |-> TRUE, val |-> 0]
    IN IF s.deadlineTime # EmptyStr /\ ~hours.nan /\ ~minutes.nan
       THEN [s EXCEPT !.selectedHour = hours.val,
                      !.selectedMinute = minutes.val,
                      !.depTime = s.deadlineTime]
       ELSE [s EXCEPT !.depTime = s.deadlineTime]

\* the effects run after a render whose dependency changed, in the order of
\* their declaration: the listener effect, the deadline effect, the time effect
RunEffect(s, off) ==
    IF s.depPopups # <<s.showCalendar, s.showTimePicker>> THEN clickOutsideEffect(s)
    ELSE IF s.depDeadline # s.form.deadline THEN deadlineSyncEffect(s, off)
    ELSE IF s.depTime # s.deadlineTime THEN timeSyncEffect(s)
    ELSE s

\* the state once the effects have run, following at most n runs
RECURSIVE SettleWithin(_, _, _)
SettleWithin(s, off, n) ==
    IF n = 0 \/ SettledIn(s) THEN s
    ELSE CHOOSE r \in {SettleWithin(x, off, n - 1) : x \in {RunEffect(s, off)}} : TRUE

Settle(s, off) == SettleWithin(s, off, MaxEffectRuns)

----------------------------------------------------------------------------
(* Submission *)

RemoveAt(q, i) == SubSeq(q, 1, i - 1) \o SubSeq(q, i + 1, Len(q))

\* the record the server answers a request with
ResponseData(req, at) ==
    [id |-> req.id, title |-> req.body.title,
     description |-> req.body.description, status |-> req.body.status,
     deadline |-> req.body.deadline, created_at |-> at]

\* a faulty submitForm, which posts the form twice
submitFormTwice(s) ==
    [s EXCEPT !.inflight = @ \o <<[id |-> s.requests + 1, body |-> s.form],
                                  [id |-> s.requests + 2, body |-> s.form]>>,
              !.requests = @ + 2]

\* submitForm up to the await: axios.post(url, form)
submitForm(s) ==
    [s EXCEPT !.inflight = Append(@, [id |-> s.requests + 1, body |-> s.form]),
              !.requests = @ + 1]

\* a faulty success branch, which keeps the task the modal already shows
submitSucceededKeepsFirst(s, i, at) ==
    [s EXCEPT !.createdTask = IF @ = Null THEN ResponseData(s.inflight[i], at) ELSE @,
              !.showModal = TRUE,
              !.form = InitialForm,
              !.deadlineDate = EmptyStr,
              !.deadlineTime = EmptyStr,
              !.inflight = RemoveAt(@, i)]

\* a faulty success branch, which leaves the two fragments as they are
submitSucceededKeepsFragments(s, i, at) ==
    [s EXCEPT !.createdTask = ResponseData(s.inflight[i], at),
              !.showModal = TRUE,
              !.form = InitialForm,
              !.inflight = RemoveAt(@, i)]

\* a faulty success branch, which resets the deadline and the fragments only
submitSucceededKeepsText(s, i, at) ==
    [s EXCEPT !.createdTask = ResponseData(s.inflight[i], at),
              !.showModal = TRUE,
              !.form.deadline = EmptyStr,
              !.deadlineDate = EmptyStr,
              !.deadlineTime = EmptyStr,
              !.inflight = RemoveAt(@, i)]

\* submitForm after the await, request i having succeeded
submitSucceeded(s, i, at) ==
    [s EXCEPT !.createdTask = ResponseData(s.inflight[i], at),
              !.showModal = TRUE,
              !.form = InitialForm,
              !.deadlineDate = EmptyStr,
              !.deadlineTime = EmptyStr,
              !.inflight = RemoveAt(@, i)]

\* a faulty failure branch, which puts the posted form back
submitFailedRestores(s, i) ==
    [s EXCEPT !.alerts = @ + 1,
              !.form = s.inflight[i].body,
              !.inflight = RemoveAt(@, i)]

\* a faulty failure branch, which posts the request again
submitFailedRetries(s, i) ==
    [s EXCEPT !.alerts = @ + 1,
              !.inflight = Append(RemoveAt(@, i), s.inflight[i])]

\* submitForm after the await, request i having failed: alert(...)
submitFailed(s, i) ==
    [s EXCEPT !.alerts = @ + 1, !.inflight = RemoveAt(@, i)]

\* a faulty closeModal, which hides the modal and keeps the task
closeModalKeepsTask(s) == [s EXCEPT !.showModal = FALSE]

\* closeModal
closeModal(s) == [s EXCEPT !.showModal = FALSE, !.createdTask = Null]

----------------------------------------------------------------------------
(* Actions *)

\* the date fragments within DaySpan days of BaseDay
WindowDates ==
    {IsoDatePart(d * MinutesPerDay) : d \in (BaseDay - DaySpan)..(BaseDay + DaySpan)}

\* the date fragment is empty or within the window: the dates an event is
\* delivered at
InWindow ==
    \/ deadlineDate = EmptyStr
    \/ deadlineDate \in WindowDates
    \/ deadlineDate \in LongDateInputs

\* an event is delivered to the settled component: s is the state its
\* handler op produces
Deliver(op, s) ==
    /\ phase = "mounted"
    /\ pressed = "none"
    /\ Settled
    /\ InWindow
    /\ \E r \in {s} : Apply(r)
    /\ last' = op
    /\ UNCHANGED <<phase, pressed, tz, now>>

HandleChange(name, value) ==
    Deliver("handleChange", handleChange(Cur, name, value))

HandleDateChange(dateValue) ==
    Deliver("handleDateChange", handleDateChange(Cur, dateValue))

HandleTimeChange(timeValue) ==
    Deliver("handleTimeChange", handleTimeChange(Cur, timeValue))

\* the day cells exist while the calendar is shown
ClickDay(day) ==
    /\ showCalendar
    /\ Deliver("clickDay", clickDay(Cur, day, tz))

SelectToday ==
    /\ showCalendar
    /\ Deliver("selectToday", selectToday(Cur, now, tz))

NavigateMonth(direction) ==
    /\ showCalendar
    /\ MonthIndex(navigateMonth(Cur, direction, tz).calendarDate, tz) - BaseMonth
          \in (0 - NavSpan)..NavSpan
    /\ Deliver("navigateMonth", navigateMonth(Cur, direction, tz))

ToggleCalendar == Deliver("toggleCalendar", toggleCalendar(Cur))

ToggleTimePicker == Deliver("toggleTimePicker", toggleTimePicker(Cur))

ClickHourOption(i) ==
    /\ showTimePicker
    /\ Deliver("setSelectedHour", setSelectedHour(Cur, i))

ClickMinuteOption(i) ==
    /\ showTimePicker
    /\ Deliver("setSelectedMinute", setSelectedMinute(Cur, i))

\* the Confirm button: handleTimeSelect(selectedHour, selectedMinute)
ClickConfirm ==
    /\ showTimePicker
    /\ Deliver("handleTimeSelect", handleTimeSelect(Cur, selectedHour, selectedMinute))

SelectCurrentTime ==
    /\ showTimePicker
    /\ Deliver("selectCurrentTime", selectCurrentTime(Cur, now, tz))

\* a mousedown somewhere in the document, heard by the attached listener; a
\* popup can be hit only while shown
MouseDown(target) ==
    /\ listening
    /\ target = "calendar" => showCalendar
    /\ target = "timePicker" => showTimePicker
    /\ Deliver("handleClickOutside", handleClickOutside(Cur, target))

\* a pointer click on a toggle button is a mousedown on the button, heard by
\* the document listener, and then the click on it
ToggleButtons == {"calendarButton", "timePickerButton"}

PressToggle(button) ==
    /\ phase = "mounted"
    /\ pressed = "none"
    /\ Settled
    /\ InWindow
    /\ listening
    /\ Apply(handleClickOutside(Cur, button))
    /\ pressed' = button
    /\ last' = "handleClickOutside"
    /\ UNCHANGED <<phase, tz, now>>

ClickToggle ==
    /\ phase = "mounted"
    /\ pressed \in ToggleButtons
    /\ Settled
    /\ Apply(IF pressed = "calendarButton" THEN toggleCalendar(Cur)
                                            ELSE toggleTimePicker(Cur))
    /\ pressed' = "none"
    /\ last' = IF pressed = "calendarButton" THEN "toggleCalendar" ELSE "toggleTimePicker"
    /\ UNCHANGED <<phase, tz, now>>

\* the browser submits only when the required inputs (title, date, time)
\* are filled
SubmitForm ==
    /\ form.title # "" /\ deadlineDate # EmptyStr /\ deadlineTime # EmptyStr
    /\ requests < MaxSubmits /\ Len(inflight) < MaxInflight
    /\ Deliver("submitForm", submitForm(Cur))

ResponseSuccess(i) ==
    /\ i \in 1..Len(inflight)
    /\ Deliver("submitSucceeded", submitSucceeded(Cur, i, now))

ResponseFailure(i) ==
    /\ i \in 1..Len(inflight)
    /\ Deliver("submitFailed", submitFailed(Cur, i))

\* the modal is rendered when showModal && createdTask
CloseModal ==
    /\ showModal /\ createdTask # Null
    /\ Deliver("closeModal", closeModal(Cur))

\* one pending effect runs
EffectStep ==
    /\ phase = "mounted"
    /\ ~Settled
    /\ Apply(RunEffect(Cur, tz))
    /\ UNCHANGED <<phase, pressed, tz, now, last>>

\* the effects of the first render run: the listener effect attaches its
\* listener; the two sync effects find an empty deadline and an empty time
\* fragment.  Under StrictMode a development build then runs every cleanup
\* and every effect once more (StrictCleanup, StrictRemount).
MountEffects(development) ==
    /\ phase = "rendered"
    /\ Apply(timeSyncEffect(deadlineSyncEffect(clickOutsideSetup(Cur), tz)))
    /\ phase' = IF development THEN "strictMounted" ELSE "mounted"
    /\ UNCHANGED <<pressed, tz, now, last>>

StrictCleanup ==
    /\ phase = "strictMounted"
    /\ Apply(clickOutsideCleanup(Cur))
    /\ phase' = "strictCleaned"
    /\ UNCHANGED <<pressed, tz, now, last>>

StrictRemount ==
    /\ phase = "strictCleaned"
    /\ Apply(timeSyncEffect(deadlineSyncEffect(clickOutsideSetup(Cur), tz)))
    /\ phase' = "mounted"
    /\ UNCHANGED <<pressed, tz, now, last>>

\* the root unmounts the component: the cleanup of the last run of the
\* listener effect is called
Unmount ==
    /\ phase = "mounted"
    /\ Settled
    /\ Apply(clickOutsideCleanup(Cur))
    /\ phase' = "unmounted"
    /\ UNCHANGED <<pressed, tz, now, last>>

----------------------------------------------------------------------------
(* Specification *)

\* the form, the two popups, the click-outside listener and the effects
Next ==
    \/ \E v \in DateInputs : HandleDateChange(v)
    \/ \E v \in TimeInputs : HandleTimeChange(v)
    \/ \E day \in ClickedDays(calendarDate, tz) : ClickDay(day)
    \/ SelectToday
    \/ \E d \in {"prev", "next"} : NavigateMonth(d)
    \/ ToggleCalendar
    \/ ToggleTimePicker
    \/ \E i \in HourOptions : ClickHourOption(i)
    \/ \E i \in MinuteOptions : ClickMinuteOption(i)
    \/ ClickConfirm
    \/ SelectCurrentTime
    \/ \E target \in Targets : MouseDown(target)
    \/ EffectStep

Spec == Init /\ [][Next]_vars

\* the form fields, the effects and the submission
NextNet ==
    \/ \E v \in TitleInputs : HandleChange("title", v)
    \/ \E v \in DateInputs \cup LongDateInputs : HandleDateChange(v)
    \/ \E v \in TimeInputs : HandleTimeChange(v)
    \/ SubmitForm
    \/ \E i \in 1..MaxInflight : ResponseSuccess(i)
    \/ \E i \in 1..MaxInflight : ResponseFailure(i)
    \/ CloseModal
    \/ EffectStep

SpecNet == Init /\ [][NextNet]_vars

\* the component as createRoot(...).render(<StrictMode><App/></StrictMode>)
\* has rendered it, before its effects have run
InitLife ==
    /\ tz \in TZOffsets
    /\ now \in NowInstants
    /\ form = InitialForm
    /\ deadlineDate = EmptyStr
    /\ deadlineTime = EmptyStr
    /\ showModal = FALSE
    /\ createdTask = Null
    /\ showCalendar = FALSE
    /\ showTimePicker = FALSE
    /\ calendarDate = now
    /\ selectedHour = 12
    /\ selectedMinute = 0
    /\ depDeadline = EmptyStr
    /\ depTime = EmptyStr
    /\ depPopups = <<FALSE, FALSE>>
    /\ listeners = 0
    /\ phase = "rendered"
    /\ inflight = << >>
    /\ requests = 0
    /\ alerts = 0
    /\ last = "mount"
    /\ pressed = "none"

\* the life of the component: mount, the popups and their listener, unmount
NextLife ==
    \/ \E development \in BOOLEAN : MountEffects(development)
    \/ StrictCleanup
    \/ StrictRemount
    \/ ToggleCalendar
    \/ ToggleTimePicker
    \/ \E d \in {"prev", "next"} : NavigateMonth(d)
    \/ \E i \in HourOptions : ClickHourOption(i)
    \/ \E target \in Targets : MouseDown(target)
    \/ EffectStep
    \/ Unmount

SpecLife == InitLife /\ [][NextLife]_vars

\* the popups worked with the pointer: the toggle buttons receive a mousedown
\* before every click
NextPointer ==
    \/ \E button \in ToggleButtons : PressToggle(button)
    \/ ClickToggle
    \/ \E target \in Targets \ ToggleButtons : MouseDown(target)
    \/ \E v \in TimeInputs : HandleTimeChange(v)
    \/ \E day \in ClickedDays(calendarDate, tz) : ClickDay(day)
    \/ SelectToday
    \/ \E d \in {"prev", "next"} : NavigateMonth(d)
    \/ \E i \in HourOptions : ClickHourOption(i)
    \/ ClickConfirm
    \/ EffectStep

SpecPointer == Init /\ [][NextPointer]_vars

----------------------------------------------------------------------------
(* Properties *)

Midnight == <<"0", "0", ":", "0", "0">>
Seconds  == <<":", "0", "0">>

\* HH:mm written digit by digit
PaddedTime(h, m) ==
    <<DigitChar(h \div 10), DigitChar(h % 10), ":",
      DigitChar(m \div 10), DigitChar(m % 10)>>

\* valid values of the time input
ValidTimes == {TimeValue(0, 0), TimeValue(9, 5), TimeValue(12, 0), TimeValue(23, 30)}

\* valid values of the date input
ValidDates == {DateValue(2024, 1, 1), DateValue(2024, 2, 29)}

\* the day numbers of the grid of the visible month
GridDays == {days(calendarDate, tz)[i] : i \in 1..Len(days(calendarDate, tz))} \ {0}

\* the visible year-month and a day number, as YYYY-MM-DD
VisibleDate(day) ==
    DateValue(GetFullYear(calendarDate, tz), GetMonth(calendarDate, tz) + 1, day)

\* C1: in every settled state, at every timezone offset, when the date
\* fragment and the time fragment are both non-empty, form.deadline is
\* deadlineDate + "T" + deadlineTime + ":00".
C1_DeadlineIsConcat ==
    (Settled /\ deadlineDate # EmptyStr /\ deadlineTime # EmptyStr)
        => form.deadline = deadlineDate \o <<"T">> \o deadlineTime \o Seconds

\* C2: round trip: when the deadline effect runs on a deadline that is
\* updateDeadline(d, t) of the two non-empty fragments d and t, it leaves
\* deadlineDate = d and deadlineTime = t, at every timezone offset.
C2_RoundTrip ==
    [][(/\ depPopups = <<showCalendar, showTimePicker>>
        /\ depDeadline # form.deadline
        /\ deadlineDate # EmptyStr /\ deadlineTime # EmptyStr
        /\ form.deadline = updateDeadline(deadlineDate, deadlineTime))
          => (deadlineDate' = deadlineDate /\ deadlineTime' = deadlineTime)]_vars

\* C3: clicking a day of the grid leaves, once settled, the date fragment
\* equal to the visible year and month and that day as YYYY-MM-DD, and the
\* calendar closed, at every timezone offset.
C3_ClickedDaySelected ==
    (Settled /\ showCalendar) =>
        \A day \in GridDays :
            LET r == Settle(clickDay(Cur, day, tz), tz)
            IN r.deadlineDate = VisibleDate(day) /\ ~r.showCalendar

\* C4: when the time fragment is empty, a date-field edit to a non-empty
\* valid date d sets form.deadline to d + "T00:00:00".
C4_DateOnlyEditDefaultsMidnight ==
    (Settled /\ deadlineTime = EmptyStr) =>
        \A d \in ValidDates :
            handleDateChange(Cur, d).form.deadline = d \o <<"T">> \o Midnight \o Seconds

C4_Witness ==
    /\ last = "handleDateChange"
    /\ deadlineTime = EmptyStr
    /\ deadlineDate = DateValue(2024, 1, 1)
    /\ form.deadline = DateValue(2024, 1, 1) \o <<"T">> \o Midnight \o Seconds

\* C5: in every settled state whose date fragment and time fragment are both
\* empty, form.deadline is empty; and clearing the date field and the time
\* field, in either order, ends with an empty deadline.
C5_EmptyFragmentsEmptyDeadline ==
    Settled =>
        /\ (deadlineDate = EmptyStr /\ deadlineTime = EmptyStr)
              => form.deadline = EmptyStr
        /\ LET dateFirst == Settle(handleDateChange(Cur, EmptyStr), tz)
               timeFirst == Settle(handleTimeChange(Cur, EmptyStr), tz)
           IN /\ Settle(handleTimeChange(dateFirst, EmptyStr), tz).form.deadline = EmptyStr
              /\ Settle(handleDateChange(timeFirst, EmptyStr), tz).form.deadline = EmptyStr

\* both fields cleared after the deadline had been 2024-01-01T23:30:00 (the
\* calendar view and the staged time still follow it)
C5_Witness ==
    /\ last \in {"handleDateChange", "handleTimeChange"}
    /\ Settled
    /\ calendarDate = MakeTimeValue(2024, 0, 1, 23, 30) - tz
    /\ selectedHour = 23 /\ selectedMinute = 30
    /\ deadlineDate = EmptyStr /\ deadlineTime = EmptyStr
    /\ form.deadline = EmptyStr

\* C6: a date-field edit leaves the time fragment unchanged: once the edit
\* has settled, deadlineTime is what it was before the edit, an empty time
\* fragment included.
C6_DateEditKeepsTime ==
    Settled =>
        \A d \in ValidDates \cup {EmptyStr} :
            Settle(handleDateChange(Cur, d), tz).deadlineTime = deadlineTime

C8_DaySelectionRecomputes ==
    (Settled /\ showCalendar) =>
        \A day \in GridDays :
            LET time == IF deadlineTime # EmptyStr THEN deadlineTime ELSE Midnight
            IN clickDay(Cur, day, tz).form.deadline
                  = VisibleDate(day) \o <<"T">> \o time \o Seconds

\* the time handleTimeSelect formats is HH:mm, zero-padded, for every hour
\* and minute
AllTimesPadded ==
    \A h \in 0..23, m \in 0..59 : formattedSelectedTime(h, m) = PaddedTime(h, m)

\* the hours and minutes handleTimeSelect is applied to in every state
SampleHours   == {0, 9, 23}
SampleMinutes == {0, 5, 59}

\* C9: handleTimeSelect(h, m) sets the time fragment to the zero-padded
\* HH:mm, recomputes form.deadline from the current date fragment and that
\* time, and closes the time picker.
C9_TimeSelectPads ==
    /\ AllTimesPadded
    /\ Settled =>
         \A h \in SampleHours \cup {selectedHour}, m \in SampleMinutes \cup {selectedMinute} :
            LET r == handleTimeSelect(Cur, h, m)
            IN /\ r.deadlineTime = PaddedTime(h, m)
               /\ r.form.deadline =
                     IF deadlineDate = EmptyStr THEN EmptyStr
                     ELSE deadlineDate \o <<"T">> \o PaddedTime(h, m) \o Seconds
               /\ ~r.showTimePicker

C9_Witness ==
    /\ last = "handleTimeSelect"
    /\ deadlineTime = <<"0", "9", ":", "0", "5">>
    /\ form.deadline = DateValue(2024, 1, 1) \o <<"T", "0", "9", ":", "0", "5", ":", "0", "0">>
    /\ ~showTimePicker

\* C10: a click on an hour or a minute option changes selectedHour or
\* selectedMinute and nothing else; an outside click changes neither
\* deadlineTime nor form.deadline; and an event changes the time fragment
\* only if it is Confirm or Now (of the picker), a time-field edit or Today.
C10_PickerStages ==
    [][Settled =>
        /\ last' = "setSelectedHour" =>
              /\ selectedHour' \in HourOptions
              /\ UNCHANGED <<form, deadlineDate, deadlineTime, showModal, createdTask,
                             showCalendar, showTimePicker, calendarDate,
                             selectedMinute, depDeadline, depTime, depPopups, listeners>>
        /\ last' = "setSelectedMinute" =>
              /\ selectedMinute' \in MinuteOptions
              /\ UNCHANGED <<form, deadlineDate, deadlineTime, showModal, createdTask,
                             showCalendar, showTimePicker, calendarDate,
                             selectedHour, depDeadline, depTime, depPopups, listeners>>
        /\ last' = "handleClickOutside" => UNCHANGED <<deadlineTime, form>>
        /\ deadlineTime' # deadlineTime =>
              last' \in {"handleTimeSelect", "selectCurrentTime",
                         "handleTimeChange", "selectToday"}]_vars

\* the picker dismissed by an outside click with hour 9 staged and the time
\* fragment still 23:30
C10_Witness ==
    /\ last = "handleClickOutside"
    /\ ~showTimePicker
    /\ selectedHour = 9
    /\ deadlineTime = TimeValue(23, 30)
    /\ form.deadline # EmptyStr

\* the host clock read in local time: the calendar date, the time of day
LocalToday == DateValue(GetFullYear(now, tz), GetMonth(now, tz) + 1, GetDate(now, tz))
LocalHour   == ((now + tz) % MinutesPerDay) \div 60
LocalMinute == (now + tz) % 60
LocalNow    == PaddedTime(LocalHour, LocalMinute)

C13_NowIsConfirmOfLocalTime ==
    Settled =>
        /\ selectCurrentTime(Cur, now, tz) = handleTimeSelect(Cur, LocalHour, LocalMinute)
        /\ Settle(selectCurrentTime(Cur, now, tz), tz)
              = Settle(handleTimeSelect(Cur, LocalHour, LocalMinute), tz)

\* Now pressed away from UTC, on a form that has a date
C13_Witness ==
    /\ last = "selectCurrentTime"
    /\ tz # 0
    /\ Settled
    /\ ~showTimePicker
    /\ deadlineTime = LocalNow
    /\ selectedHour = LocalHour /\ selectedMinute = LocalMinute
    /\ form.deadline # EmptyStr

\* C14: no infinite update cycle: after an event the effects run a bounded
\* number of times (at most three: listener, deadline, time) and the
\* component is settled; the deadline effect never writes form.deadline and,
\* once run, is not pending again.
C14_EffectsSettle ==
    /\ SettledIn(SettleWithin(Cur, tz, 3))
    /\ RunEffect(Cur, tz).form = form
    /\ LET r == deadlineSyncEffect(Cur, tz)
       IN r.form = form /\ r.depDeadline = r.form.deadline

\* a day was clicked, the deadline effect has run on the new deadline and the
\* time effect is still to run
C14_Witness ==
    /\ last = "clickDay"
    /\ form.deadline # EmptyStr
    /\ depDeadline = form.deadline
    /\ depTime # deadlineTime

\* deadlines that do not parse to a date
UnparseableDeadlines ==
    { EmptyStr,
      <<"T">> \o Midnight \o Seconds,
      <<"a", "b", "c">>,
      DateValue(2024, 13, 1) \o <<"T">> \o Midnight \o Seconds,
      DateValue(2024, 1, 1) \o <<"T">> \o TimeValue(25, 0) \o Seconds,
      DateValue(2024, 1, 1) \o <<"T", "9", ":", "5", ":", "0", "0">>,
      <<"1">> \o DateValue(2024, 1, 1) \o <<"T">> \o Midnight \o Seconds }

\* C15: when form.deadline changes to the empty string or to a string that
\* does not parse to a valid date, the deadline effect changes none of
\* deadlineDate, deadlineTime, calendarDate, selectedHour, selectedMinute.
C15_UnparseableDeadlineIgnored ==
    Settled =>
        \A x \in UnparseableDeadlines :
            /\ ~ParseDate(x, tz).valid
            /\ LET r == deadlineSyncEffect([Cur EXCEPT !.form.deadline = x], tz)
               IN /\ r.deadlineDate = deadlineDate
                  /\ r.deadlineTime = deadlineTime
                  /\ r.calendarDate = calendarDate
                  /\ r.selectedHour = selectedHour
                  /\ r.selectedMinute = selectedMinute

\* the date field cleared on a form whose deadline was 2024-01-01T23:30:00:
\* the effect has run on the empty deadline, the rest still follows the old one
C15_Witness ==
    /\ last = "handleDateChange"
    /\ Settled
    /\ form.deadline = EmptyStr
    /\ deadlineDate = EmptyStr
    /\ deadlineTime = TimeValue(23, 30)
    /\ calendarDate = MakeTimeValue(2024, 0, 1, 23, 30) - tz
    /\ selectedHour = 23 /\ selectedMinute = 30

\* entries that are not a date of the form YYYY-MM-DD / a time of the form HH:mm
MalformedDates ==
    { <<"2", "0", "2", "4", "-", "1">>,
      <<"a", "b", "c">>,
      DateValue(2024, 13, 1),
      DateValue(2024, 2, 30),
      <<"1">> \o DateValue(2024, 1, 1) }

MalformedTimes ==
    { <<"9", ":", "5">>, <<"a", "b">>, TimeValue(25, 0), <<"2", "3", ":">> }

\* C16: for every malformed date or time string entered through the date or
\* the time field, the corresponding fragment is left empty and the string
\* is stored neither in the fragment nor in form.deadline.
C16_MalformedLeftEmpty ==
    Settled =>
        /\ \A raw \in MalformedDates :
              LET r == handleDateChange(Cur, DateInputValue(raw))
              IN /\ ~(Len(raw) = 10 /\ ParseDate(raw, tz).valid)
                 /\ r.deadlineDate = EmptyStr
                 /\ r.form.deadline = EmptyStr
        /\ \A raw \in MalformedTimes :
              LET r == handleTimeChange(Cur, TimeInputValue(raw))
              IN /\ r.deadlineTime = EmptyStr
                 /\ r.form.deadline = updateDeadline(deadlineDate, EmptyStr)

\* the weekday (0 = Sunday) of the civil date y-m-d, m in 1..12, by
\* Sakamoto's method
WeekdayOf(y, m, d) ==
    LET t  == <<0, 3, 2, 5, 0, 3, 5, 1, 4, 6, 2, 4>>
        yy == IF m < 3 THEN y - 1 ELSE y
    IN (yy + yy \div 4 - yy \div 100 + yy \div 400 + t[m] + d) % 7

\* the grid of month m (1..12) of year y: the placeholders, then the days
ExpectedGrid(y, m) ==
    [i \in 1..WeekdayOf(y, m, 1) |-> 0] \o [i \in 1..DaysInMonthOf(y, m) |-> i]

\* years whose grids are compared: common, leap, and the two kinds of century
GridYears == {2000, 2023, 2024, 2100}

\* the grid is right whatever the month and wherever in the month the
\* calendar date lies: its first minute, its middle, its last minute
AllGridsRight ==
    \A off \in TZOffsets, y \in GridYears, m \in 0..11 :
        \A date \in { NewDateLocal(y, m, 1, off),
                      NewDateLocal(y, m, 15, off) + 12 * 60,
                      NewDateLocal(y, m + 1, 1, off) - 1 } :
            days(date, off) = ExpectedGrid(y, m + 1)

\* C17: for every visible month the grid is w placeholders, w the weekday
\* index (0 = Sunday) of day 1 of the month, followed by 1..N in increasing
\* order, N the number of days of the month, leap years included.
C17_GridOfVisibleMonth ==
    /\ AllGridsRight
    /\ days(calendarDate, tz)
          = ExpectedGrid(GetFullYear(calendarDate, tz), GetMonth(calendarDate, tz) + 1)

\* the calendar showing February 2024: four placeholders, then 29 days
C17_Witness ==
    /\ showCalendar
    /\ last = "navigateMonth"
    /\ MonthIndex(calendarDate, tz) = 2024 * 12 + 1
    /\ Len(days(calendarDate, tz)) = 4 + 29
    /\ days(calendarDate, tz)[4] = 0
    /\ days(calendarDate, tz)[5] = 1

\* C18: for every reachable calendarDate, days of month 29, 30 and 31
\* included, navigateMonth('next') moves the visible (year, month) to the
\* following calendar month and navigateMonth('prev') to the preceding one,
\* the year rolling over at December/January.
C18_NavigateByOneMonth ==
    (Settled /\ showCalendar) =>
        /\ MonthIndex(navigateMonth(Cur, "next", tz).calendarDate, tz)
              = MonthIndex(calendarDate, tz) + 1
        /\ MonthIndex(navigateMonth(Cur, "prev", tz).calendarDate, tz)
              = MonthIndex(calendarDate, tz) - 1

\* C19: while a popup is open, a mousedown outside that popup and outside
\* its toggle button closes it; a mousedown inside the popup or on its
\* toggle button does not close it.
C19_OutsideMouseDownCloses ==
    (Settled /\ listening) =>
        \A target \in Targets :
            ((target = "calendar" => showCalendar)
                /\ (target = "timePicker" => showTimePicker)) =>
              LET r == handleClickOutside(Cur, target)
              IN /\ r.showCalendar
                      = (showCalendar /\ target \in {"calendar", "calendarButton"})
                 /\ r.showTimePicker
                      = (showTimePicker /\ target \in {"timePicker", "timePickerButton"})

\* both popups were open when the listener was attached; the mousedown has
\* closed the time picker and left the calendar open
C19_Witness ==
    /\ last = "handleClickOutside"
    /\ depPopups = <<TRUE, TRUE>>
    /\ showCalendar
    /\ ~showTimePicker

\* C20: the mousedown listener is registered only while a popup is open: in
\* every reachable state where showCalendar and showTimePicker are both
\* false, no outside-click listener is attached.
C20_ListenerOnlyWhileOpen ==
    (~showCalendar /\ ~showTimePicker) => ~listening

\* C21: listener add and remove are balanced: at most one outside-click
\* listener is attached at any time, through popup opens and closes,
\* re-renders, mount and unmount (the StrictMode mount, cleanup, mount cycle
\* included), and none remains attached once the component has unmounted.
C21_ListenerBalanced ==
    /\ listeners \in {0, 1}
    /\ phase = "mounted" => listeners = 1
    /\ phase = "unmounted" => listeners = 0

\* unmounted after the StrictMode cycle and after a mousedown closed a popup,
\* that is after the listener effect ran at least four times
C21_Witness ==
    /\ phase = "unmounted"
    /\ last = "handleClickOutside"
    /\ depPopups = <<FALSE, FALSE>>
    /\ listeners = 0

\* the edits handleChange receives: the title and description inputs and the
\* status select
FieldEdits ==
    {<<"title", "Draft brief">>, <<"title", "">>, <<"description", "by Friday">>,
     <<"status", "in_progress">>, <<"status", "completed">>}

SamePopups(r) ==
    /\ r.showCalendar = showCalendar
    /\ r.showTimePicker = showTimePicker

SameDeadline(r) ==
    /\ r.form.deadline = form.deadline
    /\ r.deadlineDate = deadlineDate
    /\ r.deadlineTime = deadlineTime

\* C22: the popups do not close on unrelated state changes: an edit of the
\* title, the description or the status, a month navigation, the choice of
\* an hour or a minute option and the sync effects leave showCalendar and
\* showTimePicker as they are; and handleChange on title, description or
\* status leaves form.deadline and both fragments as they are.
C22_PopupsStayOpen ==
    /\ SamePopups(deadlineSyncEffect(Cur, tz))
    /\ SamePopups(timeSyncEffect(Cur))
    /\ SamePopups(RunEffect(Cur, tz))
    /\ Settled =>
         /\ \A e \in FieldEdits :
               /\ SamePopups(handleChange(Cur, e[1], e[2]))
               /\ SameDeadline(handleChange(Cur, e[1], e[2]))
               /\ SamePopups(Settle(handleChange(Cur, e[1], e[2]), tz))
               /\ SameDeadline(Settle(handleChange(Cur, e[1], e[2]), tz))
         /\ \A d \in {"prev", "next"} :
               /\ SamePopups(navigateMonth(Cur, d, tz))
               /\ SamePopups(Settle(navigateMonth(Cur, d, tz), tz))
         /\ \A i \in 0..23 : SamePopups(Settle(setSelectedHour(Cur, i), tz))
         /\ \A i \in 0..59 : SamePopups(Settle(setSelectedMinute(Cur, i), tz))

\* the month was navigated while both popups were open, and both still are
C22_Witness ==
    /\ last = "navigateMonth"
    /\ Settled
    /\ showCalendar
    /\ showTimePicker
    /\ MonthIndex(calendarDate, tz) # MonthIndex(now, tz)

\* the defaults of the form, written out
EmptyDraft ==
    [title |-> "", description |-> "", status |-> "pending", deadline |-> EmptyStr]

\* the form and the fragments are at their defaults
DraftIsEmpty(r) ==
    /\ r.form = EmptyDraft
    /\ r.deadlineDate = EmptyStr
    /\ r.deadlineTime = EmptyStr

\* C23: when the response of a submission arrives with success, createdTask
\* becomes exactly the response body, the modal becomes visible and the form
\* is reset to its defaults with both fragments empty; once the effects have
\* settled the fragments and the deadline are still empty.
C23_SuccessResets ==
    Settled =>
        \A i \in 1..Len(inflight) :
            LET body == ResponseData(inflight[i], now)
                r == submitSucceeded(Cur, i, now)
                q == Settle(r, tz)
            IN /\ r.createdTask = body /\ r.showModal /\ DraftIsEmpty(r)
               /\ q.createdTask = body /\ q.showModal /\ DraftIsEmpty(q)
               /\ SettledIn(q)

\* a response has arrived for a form that had a deadline; the form is empty
C23_Witness ==
    /\ last = "submitSucceeded"
    /\ Settled
    /\ showModal
    /\ createdTask # Null
    /\ createdTask.deadline # EmptyStr
    /\ form = EmptyDraft
    /\ deadlineDate = EmptyStr
    /\ deadlineTime = EmptyStr

\* C24: when a submission fails exactly one error notification is shown, no
\* request is sent again, and the form, both fragments, createdTask and
\* showModal keep the values they had just before the failure was delivered.
C24_FailureKeepsState ==
    Settled =>
        \A i \in 1..Len(inflight) :
            \A r \in {submitFailed(Cur, i), Settle(submitFailed(Cur, i), tz)} :
                /\ r.alerts = alerts + 1
                /\ r.requests = requests
                /\ Len(r.inflight) = Len(inflight) - 1
                /\ \A k \in 1..Len(r.inflight) : r.inflight[k].id # inflight[i].id
                /\ r.form = form
                /\ r.deadlineDate = deadlineDate
                /\ r.deadlineTime = deadlineTime
                /\ r.createdTask = createdTask
                /\ r.showModal = showModal

\* a submission has failed: one notification, the deadline still in the form
C24_Witness ==
    /\ last = "submitFailed"
    /\ alerts = 1
    /\ requests = 1
    /\ inflight = << >>
    /\ form.deadline # EmptyStr
    /\ deadlineDate # EmptyStr

\* C25: a submit event issues exactly one POST request, whose body is the
\* form as it is at the submit event; a request is issued by a submit event
\* only, and a request in flight is not modified.
C25_OnePostPerSubmit ==
    [][/\ Settled =>
            /\ submitForm(Cur).requests = requests + 1
            /\ submitForm(Cur).inflight
                  = Append(inflight, [id |-> requests + 1, body |-> form])
       /\ requests' # requests =>
            /\ last' = "submitForm"
            /\ requests' = requests + 1
            /\ inflight' = Append(inflight, [id |-> requests + 1, body |-> form])
       /\ requests' = requests =>
            \A k \in 1..Len(inflight') :
                \E j \in 1..Len(inflight) : inflight'[k] = inflight[j]]_vars

\* two submit events, two requests in flight, each with the form of its event
C25_Witness ==
    /\ last = "submitForm"
    /\ requests = 2
    /\ Len(inflight) = 2
    /\ inflight[1].body.deadline # inflight[2].body.deadline
    /\ inflight[2].body = form

\* C26: in every reachable state showModal is true if and only if
\* createdTask is not null; closeModal sets showModal to false and
\* createdTask to null; createdTask changes only when a response is received
\* and when the modal is closed.
C26_ModalOwnsTask ==
    /\ [](showModal <=> createdTask # Null)
    /\ [](Settled => (~closeModal(Cur).showModal /\ closeModal(Cur).createdTask = Null))
    /\ [][createdTask' # createdTask =>
            \/ last' = "submitSucceeded" /\ createdTask' # Null
            \/ last' = "closeModal" /\ createdTask' = Null]_vars

\* the response to the first request replaced the task of the second one
C26_Witness ==
    /\ last = "submitSucceeded"
    /\ requests = 2
    /\ inflight = << >>
    /\ alerts = 0
    /\ showModal
    /\ createdTask # Null
    /\ createdTask.id = 1

\* C27: after a submit whose response succeeds, followed by closeModal with
\* no other user event in between, createdTask is null, the modal is
\* hidden, the form is at its defaults and both fragments are empty.
C27_SubmitSucceedClose ==
    Settled =>
        \A i \in 1..Len(inflight) :
            LET r == Settle(closeModal(Settle(submitSucceeded(Cur, i, now), tz)), tz)
            IN /\ r.createdTask = Null
               /\ ~r.showModal
               /\ DraftIsEmpty(r)

\* the modal of the only submission has been closed
C27_Witness ==
    /\ last = "closeModal"
    /\ Settled
    /\ requests = 1
    /\ inflight = << >>
    /\ alerts = 0
    /\ createdTask = Null
    /\ ~showModal
    /\ form = EmptyDraft

\* YYYY-MM-DDTHH:mm:ss
DeadlineForm(d) ==
    /\ Len(d) = 19
    /\ \A k \in {1, 2, 3, 4, 6, 7, 9, 10, 12, 13, 15, 16, 18, 19} : IsDigit(d[k])
    /\ d[5] = "-" /\ d[8] = "-" /\ d[11] = "T" /\ d[14] = ":" /\ d[17] = ":"

\* C28: every POST request carries a non-empty deadline of the form
\* YYYY-MM-DDTHH:mm:ss, submit being enabled only when the title, the date
\* field and the time field are non-empty.
C28_PostedDeadlineForm ==
    \A k \in 1..Len(inflight) : DeadlineForm(inflight[k].body.deadline)

\* the year, month and day written in a date fragment YYYY-MM-DD
Written(d) ==
    LET parts == Split(d, "-")
    IN [year |-> DigitsVal(parts[1]), month |-> DigitsVal(parts[2]),
        day |-> DigitsVal(parts[3])]

\* the indices of the cells of the grid
Cells == 1..Len(days(calendarDate, tz))

\* C29: a cell of the grid has the 'selected' mark if and only if its day
\* number, the visible month and the visible year are the day, month and
\* year written in the date fragment; it has the 'today' mark if and only
\* if they are the current local date; at most one cell has each mark.
C29_CellMarks ==
    (Settled /\ showCalendar) =>
        LET grid == days(calendarDate, tz)
            month == GetMonth(calendarDate, tz) + 1
            year == GetFullYear(calendarDate, tz)
            local == FieldsAt(now, tz)
        IN /\ \A k \in Cells :
                 /\ isSelected(Cur, grid[k], tz)
                       <=> /\ deadlineDate # EmptyStr
                           /\ Written(deadlineDate)
                                 = [year |-> year, month |-> month, day |-> grid[k]]
                 /\ isToday(Cur, grid[k], now, tz)
                       <=> /\ grid[k] = local.day
                           /\ month = local.month0 + 1
                           /\ year = local.year
           /\ Cardinality({k \in Cells : isSelected(Cur, grid[k], tz)}) <= 1
           /\ Cardinality({k \in Cells : isToday(Cur, grid[k], now, tz)}) <= 1

\* the states the handlers that write form.deadline lead to from the
\* current one
DeadlineWrites ==
    {handleDateChange(Cur, v) :
        v \in DateInputs \cup {DateValue(2023, 12, 31), DateValue(2024, 2, 29)}}
      \cup {handleTimeChange(Cur, v) :
               v \in TimeInputs \cup {TimeValue(0, 0), TimeValue(23, 59)}}
      \cup {clickDay(Cur, day, tz) : day \in ClickedDays(calendarDate, tz)}
      \cup {selectToday(Cur, now, tz), selectCurrentTime(Cur, now, tz),
            handleTimeSelect(Cur, selectedHour, selectedMinute)}

\* the fields written in a deadline YYYY-MM-DDTHH:mm:ss
WrittenIn(d) ==
    [year |-> DigitsVal(SubSeq(d, 1, 4)), month |-> DigitsVal(SubSeq(d, 6, 7)),
     hour |-> DigitsVal(SubSeq(d, 12, 13)), minute |-> DigitsVal(SubSeq(d, 15, 16))]

TimeWrites ==
    {handleTimeChange(Cur, v) :
        v \in TimeInputs \cup {TimeValue(0, 0), TimeValue(0, 30), TimeValue(23, 59)}}
      \cup {handleTimeSelect(Cur, selectedHour, selectedMinute),
            selectCurrentTime(Cur, now, tz)}

\* the date part of a deadline: what stands before the T
DatePartOf(d) == SplitFirst(d, "T")

\* C31: a time change does not move the date: after an edit of the time
\* field, a confirmation of the time picker or Now, once settled, the date
\* fragment and the date part of form.deadline are what they were before, at
\* every timezone offset (and so over every sequence of such changes).
C31_TimeChangeKeepsDate ==
    Settled =>
        \A r \in TimeWrites :
            LET q == Settle(r, tz)
            IN /\ q.deadlineDate = deadlineDate
               /\ DatePartOf(q.form.deadline) = DatePartOf(form.deadline)

\* C32: the selection of a calendar day is idempotent: selecting the same
\* day of the same month and year twice in a row gives, once settled, the
\* same date fragment, time fragment, deadline and calendar view as
\* selecting it once.
C32_DaySelectIdempotent ==
    (Settled /\ showCalendar) =>
        \A day \in ClickedDays(calendarDate, tz) :
            LET month0 == GetMonth(calendarDate, tz)
                year == GetFullYear(calendarDate, tz)
                once == Settle(handleDateSelect(Cur, day, month0, year, tz), tz)
                twice == Settle(handleDateSelect(once, day, month0, year, tz), tz)
            IN /\ twice.deadlineDate = once.deadlineDate
               /\ twice.deadlineTime = once.deadlineTime
               /\ twice.form.deadline = once.form.deadline
               /\ twice.calendarDate = once.calendarDate

\* C33: in every reachable settled state form.deadline is non-empty if and
\* only if the date fragment is non-empty; a time fragment set while the
\* date fragment is empty leaves the deadline empty.
C33_DeadlineIffDate ==
    Settled =>
        /\ form.deadline # EmptyStr <=> deadlineDate # EmptyStr
        /\ deadlineDate = EmptyStr =>
              \A r \in TimeWrites :
                  /\ r.form.deadline = EmptyStr
                  /\ Settle(r, tz).form.deadline = EmptyStr

\* a time has been entered with no date: the deadline is empty
C33_Witness ==
    /\ last = "handleTimeChange"
    /\ Settled
    /\ deadlineTime = TimeValue(23, 30)
    /\ deadlineDate = EmptyStr
    /\ form.deadline = EmptyStr

\* a pointer click on a toggle button, from mousedown to the settled state
\* after the click
PointerClick(s, button) ==
    LET down == Settle(handleClickOutside(s, button), tz)
    IN Settle(IF button = "calendarButton" THEN toggleCalendar(down)
                                           ELSE toggleTimePicker(down), tz)

\* C34: when every click on a toggle button is preceded by a mousedown on
\* that button, the calendar and the time picker are never open at the same
\* time: opening one closes the other.
C34_OnePopupAtATime ==
    /\ ~(showCalendar /\ showTimePicker)
    /\ (Settled /\ pressed = "none" /\ showTimePicker) =>
          /\ PointerClick(Cur, "calendarButton").showCalendar
          /\ ~PointerClick(Cur, "calendarButton").showTimePicker
    /\ (Settled /\ pressed = "none" /\ showCalendar) =>
          /\ PointerClick(Cur, "timePickerButton").showTimePicker
          /\ ~PointerClick(Cur, "timePickerButton").showCalendar

\* the mousedown on the calendar button has just closed the open time
\* picker; the click that opens the calendar is still to come
C34_Witness ==
    /\ pressed = "calendarButton"
    /\ depPopups = <<FALSE, TRUE>>
    /\ ~showTimePicker
    /\ ~showCalendar

\* C35: a pointer click (mousedown, then click) on the toggle button of a
\* popup leaves the popup closed if it was open and open if it was closed:
\* the mousedown does not close it, so the click does not open it again.
C35_PointerClickToggles ==
    /\ pressed = "calendarButton" => showCalendar = depPopups[1]
    /\ pressed = "timePickerButton" => showTimePicker = depPopups[2]
    /\ (Settled /\ pressed = "none") =>
          /\ PointerClick(Cur, "calendarButton").showCalendar = ~showCalendar
          /\ PointerClick(Cur, "timePickerButton").showTimePicker = ~showTimePicker

\* the open calendar has been closed by a pointer click on its own button
C35_Witness ==
    /\ last = "toggleCalendar"
    /\ pressed = "none"
    /\ depPopups = <<TRUE, FALSE>>
    /\ ~showCalendar
    /\ ~showTimePicker

\* the states an edit of the form or of a fragment leads to from the
\* current one
EditsOfDraft ==
    {handleChange(Cur, e[1], e[2]) : e \in FieldEdits}
      \cup {handleDateChange(Cur, v) : v \in DateInputs \cup LongDateInputs}
      \cup {handleTimeChange(Cur, v) : v \in TimeInputs \cup {TimeValue(0, 0)}}

\* C36: edits between a submit and its response: on success the form and
\* both fragments are reset to the defaults all the same, on failure the
\* edits are kept as they are; in both cases the body of the request is the
\* form as of the submit event.
C36_EditsWhileInFlight ==
    Settled =>
        /\ submitForm(Cur).inflight[Len(inflight) + 1].body = form
        /\ \A i \in 1..Len(inflight) :
              \A e \in EditsOfDraft :
                  LET edited == Settle(e, tz)
                      ok == Settle(submitSucceeded(edited, i, now), tz)
                      failed == Settle(submitFailed(edited, i), tz)
                  IN /\ edited.inflight = inflight
                     /\ DraftIsEmpty(ok)
                     /\ ok.createdTask = ResponseData(inflight[i], now)
                     /\ failed.form = edited.form
                     /\ failed.deadlineDate = edited.deadlineDate
                     /\ failed.deadlineTime = edited.deadlineTime

\* the time was edited while the only request is in flight: the form is no
\* longer the body of the request
C36_Witness ==
    /\ last = "handleTimeChange"
    /\ Settled
    /\ Len(inflight) = 1
    /\ inflight[1].body.deadline # form.deadline
    /\ inflight[1].body.title = form.title

\* C37: two submit events before either response issue two POST requests;
\* after both have succeeded, in either order of arrival and with or without
\* a closeModal in between, createdTask is the response that arrived last
\* and the modal is visible, and showModal iff createdTask is non-null holds
\* at every step.
C37_OverlappingSubmissions ==
    (Settled /\ Len(inflight) = 2) =>
        /\ inflight[1].id # inflight[2].id
        /\ requests >= 2
        /\ \A i \in {1, 2} :
              \A close \in BOOLEAN :
                  LET first == Settle(submitSucceeded(Cur, i, now), tz)
                      between == IF close THEN Settle(closeModal(first), tz) ELSE first
                      second == Settle(submitSucceeded(between, 1, now), tz)
                  IN /\ second.createdTask = ResponseData(inflight[3 - i], now)
                     /\ second.showModal
                     /\ second.inflight = << >>
                     /\ \A r \in {first, between, second} :
                           r.showModal <=> r.createdTask # Null

\* both requests have succeeded, the first one last: it was still in flight
\* when the second was posted and answered
C37_Witness ==
    /\ last = "submitSucceeded"
    /\ Settled
    /\ requests = 2
    /\ inflight = << >>
    /\ alerts = 0
    /\ form = EmptyDraft
    /\ showModal
    /\ createdTask # Null
    /\ createdTask.id = 1
    /\ createdTask.deadline # EmptyStr

\* C38: month navigation is display-only: navigateMonth changes calendarDate
\* and nothing else (not the form with its deadline, not the fragments, not
\* the staged hour and minute) and starts no run of the deadline effect.
C38_NavigationDisplayOnly ==
    (Settled /\ showCalendar) =>
        \A d \in {"prev", "next"} :
            LET r == navigateMonth(Cur, d, tz)
            IN /\ r = [Cur EXCEPT !.calendarDate = r.calendarDate]
               /\ r.calendarDate # calendarDate
               /\ r.depDeadline = r.form.deadline
               /\ SettledIn(r)
               /\ Settle(r, tz) = r

\* the calendar was moved to February 2024 while the deadline, its
\* fragments and the staged hour stay on 1 January
C38_Witness ==
    /\ last = "navigateMonth"
    /\ Settled
    /\ deadlineDate = DateValue(2024, 1, 1)
    /\ DatePartOf(form.deadline) = DateValue(2024, 1, 1)
    /\ MonthIndex(calendarDate, tz) = BaseMonth + 1

====
